---- MODULE Spec2Model ----
(***************************************************************************)
(* Model of the insurance-PDF viewer: the Document Viewer (PDFInner.tsx)   *)
(* and the Page Controller (page.tsx) with its backend client (callRAG).   *)
(*                                                                         *)
(* One action per event handler or promise continuation.  The browser runs *)
(* them on one event loop, so each handler (with the callbacks it invokes  *)
(* synchronously and the effect cleanup React runs after its render) is    *)
(* one atomic step; a pending fetch is a record in `inflight`, settled by  *)
(* a later step in any order.                                              *)
(***************************************************************************)
EXTENDS Integers, Sequences, FiniteSets, TLC

\* ------------------------------------------------------------------ bounds

\* Total number of callRAG invocations explored in one behaviour.
MaxRequests == 3

\* Calls started in a behaviour of the liveness specification.
MaxLiveRequests == 2

\* ------------------------------------------------------------ value domains

\* JS null / a present value: <<>> or <<v>>.
Null == <<>>

Some(v) == <<v>>

\* The whitespace String.trim removes.
Whitespace == {" "}

\* Texts a browser selection can report (selection.toString()): empty,
\* whitespace only, and two texts padded on either side.
SelectionTexts == { <<>>, <<" ">>, <<" ", "x">>, <<"y", " ">> }

\* Texts typed into the follow-up input: whitespace only, and a padded question.
TypedTexts == { <<" ">>, <<" ", "q", " ">> }

\* Names of the files the picker can yield; NoFile is e.target.files?.[0] ?? null.
Files == {"a.pdf", "b.pdf"}

NoFile == "(none)"

\* ------------------------------------------------------------ pure helpers

\* String.prototype.trim on a sequence of characters.
RECURSIVE TrimLeft(_)
TrimLeft(s) ==
    IF s # <<>> /\ Head(s) \in Whitespace THEN TrimLeft(Tail(s)) ELSE s

RECURSIVE TrimRight(_)
TrimRight(s) ==
    IF s # <<>> /\ s[Len(s)] \in Whitespace
    THEN TrimRight(SubSeq(s, 1, Len(s) - 1))
    ELSE s

Trim(s) == TrimRight(TrimLeft(s))

\* JS truthiness of a `string | null` cell: neither null nor "".
Truthy(opt) == opt # Null /\ opt[1] # <<>>

\* Message / overview contents are tagged so that typed text, backend answers
\* and the fixed fallback literals are distinct values of one shape.
Typed(t) == <<"txt", t>>

EmptyString == Typed(<<>>)

Literal(s) == <<"lit", s>>

\* The `answer` field of the backend's reply to network call `id`.
AnswerFor(id) == <<"ans", id>>

OverviewFallback == "Sorry, I could not load the document overview from the server."

ExplainFallback == "Sorry, I could not get an explanation from the server. Please try again later."

FollowupFallback == "Sorry, I could not get a follow-up answer from the server."

ChatMessage(role, content) == [role |-> role, content |-> content]

IsPrefix(s, t) == Len(s) <= Len(t) /\ SubSeq(t, 1, Len(s)) = s

\* --------------------------------------------------------- viewer geometry

\* Client rectangles a selection range can report (range.getBoundingClientRect).
SelectionRects ==
    { [top |-> 120, left |-> 60, width |-> 200, height |-> 18],
      [top |-> 300, left |-> 45, width |-> 90, height |-> 36] }

\* Client rectangle of the scroll container (container.getBoundingClientRect).
ContainerRects == { [top |-> 70, left |-> 20] }

\* Scroll offsets of the container (container.scrollTop / scrollLeft).
Scrolls == { [top |-> 250, left |-> 10] }

\* What window.getSelection() yields at pointer release: null, a collapsed
\* selection, or a range with its text (selection.toString()) and rectangle.
NoSelection == [present |-> FALSE, isCollapsed |-> TRUE, text |-> <<>>, rect |-> Null]

CollapsedSelection == [present |-> TRUE, isCollapsed |-> TRUE, text |-> <<>>, rect |-> Null]

RangeSelection(text, rect) ==
    [present |-> TRUE, isCollapsed |-> FALSE, text |-> text, rect |-> Some(rect)]

BrowserSelections ==
    {NoSelection, CollapsedSelection}
        \cup {RangeSelection(t, r) : t \in SelectionTexts, r \in SelectionRects}

\* The div carrying the mouse handlers is rendered unconditionally, so
\* containerRef.current is set whenever one of them runs.
ContainerMounted == TRUE

\* Faulty variant: the rectangle without the container's scroll offset.
ComputeRectNoScroll(rect, containerRect, scroll) ==
    [ top    |-> rect.top - containerRect.top,
      left   |-> rect.left - containerRect.left,
      width  |-> rect.width,
      height |-> rect.height ]

\* HighlightRect relative to the container, scroll offset included.
ComputeRect(rect, containerRect, scroll) ==
    [ top    |-> rect.top - containerRect.top + scroll.top,
      left   |-> rect.left - containerRect.left + scroll.left,
      width  |-> rect.width,
      height |-> rect.height ]

\* ------------------------------------------------------------ backend client

\* How a network call can end: the fetch promise rejects (no response), a
\* response with a non-2xx status, a 2xx response whose body is not JSON, or
\* a 2xx response with a JSON body.
Outcomes == {"network_error", "http_error", "bad_json", "ok"}

Arrived(o) == o # "network_error"

StatusOk(o) == o \in {"bad_json", "ok"}

BodyParses(o) == o = "ok"

\* Faulty variant: callRAG issues its fetch twice.
FetchesPerCallTwice == 1 + 1

\* Number of fetch calls one callRAG invocation makes.
FetchesPerCall == 1

\* callRAG(path, body): the network calls it starts.  `id` names the
\* invocation, `kind` the continuation awaiting it.
CallRAG(id, kind, path, body) ==
    { [id |-> id, attempt |-> a, kind |-> kind, path |-> path, body |-> body]
        : a \in 1..FetchesPerCall }

\* callRAG rejects when fetch rejects, when !resp.ok, or when resp.json() rejects.
CallRAGThrows(o) == ~Arrived(o) \/ ~StatusOk(o) \/ ~BodyParses(o)

\* The request payloads: the prompt template and what it embeds.
OverviewBody(fileName) ==
    [prompt |-> "overview", file_name |-> fileName, text |-> <<>>, ask |-> <<>>]

ExplainBody(text) ==
    [prompt |-> "explain", file_name |-> "", text |-> text, ask |-> <<>>]

FollowupBody(text, ask) ==
    [prompt |-> "followup", file_name |-> "", text |-> text, ask |-> ask]

\* Faulty variant: the follow-up handler awaits callRAG outside any try block.
HandlerCatchesButFollowup(kind) == kind \in {"overview", "explain"}

\* Every await of callRAG sits in a try block with a catch-all clause.
HandlerCatches(kind) == kind \in {"overview", "explain", "followup"}

\* --------------------------------------------------------------------- state

VARIABLES
    \* Page Controller (HomePage) state cells
    overviewText, overviewLoading, overviewError, currentFileName,
    selectedText, highlightMessages, highlightInput,
    \* Document Viewer (PDFInner) state cells
    fileObj, fileUrl, highlightRect,
    \* environment: object URLs created and not revoked, pending network calls
    aliveUrls, urlsCreated, inflight, nextReq,
    \* history: the last event handled, the callbacks the last viewer event
    \* invoked (in order), the most object URLs alive at any point, the
    \* numbers of request-issuing events / callRAG invocations / fetch calls,
    \* and whether a rejection ever left a handler uncaught
    lastEvent, calls, peakAlive, nTriggers, nCallRAG, nFetch, uncaught,
    \* history: the pending highlight calls (by id) that were started before
    \* the latest selection-made, selection-cleared or file-loaded event
    superseded

pageVars ==
    <<overviewText, overviewLoading, overviewError, currentFileName,
      selectedText, highlightMessages, highlightInput>>

viewerVars == <<fileObj, fileUrl, highlightRect>>

urlVars == <<aliveUrls, urlsCreated, peakAlive>>

netVars == <<inflight, nextReq, nTriggers, nCallRAG, nFetch>>

vars ==
    <<pageVars, viewerVars, urlVars, netVars, lastEvent, calls, uncaught, superseded>>

\* The Page Controller's cells as one record, so that the callbacks a viewer
\* handler invokes one after the other compose.
PageState ==
    [ overviewText      |-> overviewText,
      overviewLoading   |-> overviewLoading,
      overviewError     |-> overviewError,
      currentFileName   |-> currentFileName,
      selectedText      |-> selectedText,
      highlightMessages |-> highlightMessages,
      highlightInput    |-> highlightInput ]

SetPage(p) ==
    /\ overviewText' = p.overviewText
    /\ overviewLoading' = p.overviewLoading
    /\ overviewError' = p.overviewError
    /\ currentFileName' = p.currentFileName
    /\ selectedText' = p.selectedText
    /\ highlightMessages' = p.highlightMessages
    /\ highlightInput' = p.highlightInput

\* An event record: every event has the same fields.
Event(type, flag, name, geo, req, outcome) ==
    [type |-> type, flag |-> flag, name |-> name, geo |-> geo, req |-> req,
     outcome |-> outcome]

NoEvent == Event("none", FALSE, NoFile, Null, 0, "none")

Max(a, b) == IF a >= b THEN a ELSE b

Init ==
    /\ overviewText = EmptyString
    /\ overviewLoading = FALSE
    /\ overviewError = Null
    /\ currentFileName = Null
    /\ selectedText = Null
    /\ highlightMessages = <<>>
    /\ highlightInput = <<>>
    /\ fileObj = Null
    /\ fileUrl = Null
    /\ highlightRect = Null
    /\ aliveUrls = {}
    /\ urlsCreated = 0
    /\ inflight = {}
    /\ nextReq = 1
    /\ lastEvent = NoEvent
    /\ calls = <<>>
    /\ peakAlive = 0
    /\ nTriggers = 0
    /\ nCallRAG = 0
    /\ nFetch = 0
    /\ uncaught = FALSE
    /\ superseded = {}

\* A request-issuing event is explored only while the request budget lasts.
BudgetLeft == nextReq <= MaxRequests

\* ------------------------------------------------- Page Controller handlers

\* Faulty variant: fetchOverviewForFile without its setOverviewError(null).
FetchOverviewKeepsError(p, fileName) ==
    [p EXCEPT !.overviewLoading = TRUE,
              !.overviewText = EmptyString]

\* fetchOverviewForFile, up to its await: the three synchronous resets.
FetchOverviewForFile(p, fileName) ==
    [p EXCEPT !.overviewLoading = TRUE,
              !.overviewError = Null,
              !.overviewText = EmptyString]

\* handleFileLoaded: the cells it sets, then fetchOverviewForFile.
HandleFileLoaded(p, fileName) ==
    FetchOverviewForFile(
        [p EXCEPT !.currentFileName = Some(fileName),
                  !.selectedText = Null,
                  !.highlightMessages = <<>>,
                  !.highlightInput = <<>>],
        fileName)

\* Faulty variant: handleSelection without its setHighlightMessages([]).
HandleSelectionKeepsMessages(p, text) ==
    [p EXCEPT !.selectedText = Some(text),
              !.highlightInput = <<>>]

\* handleSelection, up to its await.
HandleSelection(p, text) ==
    [p EXCEPT !.selectedText = Some(text),
              !.highlightMessages = <<>>,
              !.highlightInput = <<>>]

\* Faulty variant: handleClearSelection leaving selectedText in place.
HandleClearSelectionKeepsText(p) ==
    [p EXCEPT !.highlightMessages = <<>>,
              !.highlightInput = <<>>]

HandleClearSelection(p) ==
    [p EXCEPT !.selectedText = Null,
              !.highlightMessages = <<>>,
              !.highlightInput = <<>>]

\* Faulty variant: a reply is dropped unless it is for the current file.
OverviewSettledIfCurrent(p, r, o) ==
    IF p.currentFileName = Some(r.body.file_name)
    THEN [p EXCEPT !.overviewLoading = FALSE,
                   !.overviewText = IF CallRAGThrows(o) THEN @ ELSE AnswerFor(r.id),
                   !.overviewError = IF CallRAGThrows(o) THEN Some(OverviewFallback) ELSE @]
    ELSE p

\* Faulty variant: fetchOverviewForFile without its finally block.
OverviewSettledNoFinally(p, r, o) ==
    IF ~CallRAGThrows(o)
    THEN [p EXCEPT !.overviewText = AnswerFor(r.id)]
    ELSE [p EXCEPT !.overviewError = Some(OverviewFallback)]

\* fetchOverviewForFile after its await: try / catch / finally.
OverviewSettled(p, r, o) ==
    LET q == IF ~CallRAGThrows(o)
             THEN [p EXCEPT !.overviewText = AnswerFor(r.id)]
             ELSE IF HandlerCatches("overview")
                  THEN [p EXCEPT !.overviewError = Some(OverviewFallback)]
                  ELSE p
    IN  [q EXCEPT !.overviewLoading = FALSE]

\* handleSelection after its await: both branches replace the whole list.
ExplainSettled(p, r, o) ==
    IF ~CallRAGThrows(o)
    THEN [p EXCEPT !.highlightMessages = <<ChatMessage("assistant", AnswerFor(r.id))>>]
    ELSE IF HandlerCatches("explain")
         THEN [p EXCEPT !.highlightMessages =
                            <<ChatMessage("assistant", Literal(ExplainFallback))>>]
         ELSE p

\* Faulty variant: the follow-up reply replaces the list, as handleSelection's does.
FollowupSettledReplaces(p, r, o) ==
    [p EXCEPT !.highlightMessages =
        << ChatMessage("assistant",
                       IF CallRAGThrows(o) THEN Literal(FollowupFallback)
                       ELSE AnswerFor(r.id)) >>]

\* handleHighlightSubmit after its await: both branches append to the list
\* as it is when the reply is applied (functional update).
FollowupSettled(p, r, o) ==
    IF ~CallRAGThrows(o)
    THEN [p EXCEPT !.highlightMessages =
                       Append(@, ChatMessage("assistant", AnswerFor(r.id)))]
    ELSE IF HandlerCatches("followup")
         THEN [p EXCEPT !.highlightMessages =
                            Append(@, ChatMessage("assistant", Literal(FollowupFallback)))]
         ELSE p

\* The continuation a settled network call resumes.
Settled(p, r, o) ==
    CASE r.kind = "overview" -> OverviewSettled(p, r, o)
      [] r.kind = "explain"  -> ExplainSettled(p, r, o)
      [] r.kind = "followup" -> FollowupSettled(p, r, o)

\* The follow-up form is rendered only under `selectedText &&`.
FormRendered == Truthy(selectedText)

\* The ids of the pending calls of the highlight flow.
HighlightPending == {r.id : r \in {q \in inflight : q.kind \in {"explain", "followup"}}}

\* One callRAG invocation: the network calls it starts become pending.
Issue(kind, path, body) ==
    LET started == CallRAG(nextReq, kind, path, body)
    IN  /\ inflight' = inflight \cup started
        /\ nextReq' = nextReq + 1
        /\ nCallRAG' = nCallRAG + 1
        /\ nFetch' = nFetch + Cardinality(started)

\* ------------------------------------------------- Document Viewer handlers

\* A callback invocation from the viewer into the Page Controller.
Callback(cb, file, text) == [cb |-> cb, file |-> file, text |-> text]

\* The Page Controller handler each callback prop is wired to.
RECURSIVE RunCallbacks(_, _)
RunCallbacks(p, cs) ==
    IF cs = <<>> THEN p
    ELSE LET c == Head(cs)
             q == CASE c.cb = "onClearSelection" -> HandleClearSelection(p)
                    [] c.cb = "onFileLoaded"     -> HandleFileLoaded(p, c.file)
                    [] c.cb = "onSelection"      -> HandleSelection(p, c.text)
         IN  RunCallbacks(q, Tail(cs))

RevokeObjectURL(alive, url) == alive \ {url}

\* Faulty variant: handleFileChange without its revoke.
RevokePreviousSkipped(alive, url) == alive

\* handleFileChange: `if (fileUrl) URL.revokeObjectURL(fileUrl)`.
RevokePrevious(alive, url) ==
    IF url # Null THEN RevokeObjectURL(alive, url[1]) ELSE alive

\* The cleanup of the [fileUrl] effect, run by React for the previous value
\* of fileUrl once a render commits a new one.
EffectCleanup(alive, url) ==
    IF url # Null THEN RevokeObjectURL(alive, url[1]) ELSE alive

\* Faulty variant: the new file is announced before the selection is cleared.
FileChangeCallbacksSwapped(file) ==
    << Callback("onFileLoaded", file, <<>>),
       Callback("onClearSelection", NoFile, <<>>) >>

\* handleFileChange: the callbacks it invokes, in order.
FileChangeCallbacks(file) ==
    << Callback("onClearSelection", NoFile, <<>>),
       Callback("onFileLoaded", file, <<>>) >>

\* handleFileChange for what the picker yields (a file, or none).
HandleFileChange(file) ==
    /\ lastEvent' = Event("fileChange", highlightRect # Null, file, Null, 0, "none")
    /\ IF file = NoFile
       THEN /\ calls' = <<>>
            /\ UNCHANGED <<pageVars, viewerVars, urlVars, netVars, uncaught, superseded>>
       ELSE LET afterRevoke  == RevokePrevious(aliveUrls, fileUrl)
                url          == urlsCreated + 1
                afterCreate  == afterRevoke \cup {url}
                afterCleanup == EffectCleanup(afterCreate, fileUrl)
                cs           == FileChangeCallbacks(file)
            IN  /\ BudgetLeft
                /\ fileObj' = Some(file)
                /\ fileUrl' = Some(url)
                /\ urlsCreated' = url
                /\ aliveUrls' = afterCleanup
                /\ peakAlive' = Max(peakAlive,
                                    Max(Cardinality(afterRevoke), Cardinality(afterCreate)))
                /\ highlightRect' = Null
                /\ calls' = cs
                /\ SetPage(RunCallbacks(PageState, cs))
                /\ Issue("overview", "/api/rag/overview", OverviewBody(file))
                /\ nTriggers' = nTriggers + 1
                /\ superseded' = HighlightPending
                /\ UNCHANGED uncaught

\* Faulty variant: handleMouseUp testing the selection text before trimming.
SelectionAcceptedUntrimmed(sel) ==
    /\ sel.present
    /\ ~sel.isCollapsed
    /\ sel.text # <<>>
    /\ ContainerMounted

\* handleMouseUp passes its early returns.
SelectionAccepted(sel) ==
    /\ sel.present
    /\ ~sel.isCollapsed
    /\ Trim(sel.text) # <<>>
    /\ ContainerMounted

\* Whether the browser selection is a range holding a non-whitespace character.
HasVisibleText(sel) ==
    /\ sel.present
    /\ ~sel.isCollapsed
    /\ \E i \in 1..Len(sel.text) : sel.text[i] \notin Whitespace

\* Whether a highlight rectangle is shown when an event arrives.
HadHighlight == IF highlightRect # Null THEN "highlight" ELSE "no highlight"

\* handleMouseUp with the browser selection and geometry at pointer release.
HandleMouseUp(sel, containerRect, scroll) ==
    IF SelectionAccepted(sel)
    THEN LET text == Trim(sel.text)
             cs   == << Callback("onSelection", NoFile, text) >>
         IN  /\ BudgetLeft
             /\ highlightRect' = Some(ComputeRect(sel.rect[1], containerRect, scroll))
             /\ calls' = cs
             /\ SetPage(RunCallbacks(PageState, cs))
             /\ Issue("explain", "/api/rag/highlight", ExplainBody(text))
             /\ nTriggers' = nTriggers + 1
             /\ lastEvent' = Event("mouseUp", TRUE, HadHighlight,
                                   Some([rect |-> sel.rect[1], containerRect |-> containerRect,
                                         scroll |-> scroll, text |-> sel.text]),
                                   0, IF HasVisibleText(sel) THEN "visible" ELSE "blank")
             /\ superseded' = HighlightPending
             /\ UNCHANGED <<fileObj, fileUrl, urlVars, uncaught>>
    ELSE /\ lastEvent' = Event("mouseUp", FALSE, HadHighlight, Null, 0,
                                IF HasVisibleText(sel) THEN "visible" ELSE "blank")
         /\ calls' = <<>>
         /\ UNCHANGED <<pageVars, viewerVars, urlVars, netVars, uncaught, superseded>>

\* The pointer-press targets: the container itself, or rendered text in it.
Targets == {"container", "text"}

\* handleMouseDown.
HandleMouseDown(target) ==
    /\ lastEvent' = Event("mouseDown", target = "container", NoFile, Null, 0, "none")
    /\ IF ContainerMounted /\ target = "container"
       THEN LET cs == << Callback("onClearSelection", NoFile, <<>>) >>
            IN  /\ highlightRect' = Null
                /\ calls' = cs
                /\ SetPage(RunCallbacks(PageState, cs))
                /\ superseded' = HighlightPending
                /\ UNCHANGED <<fileObj, fileUrl>>
       ELSE /\ calls' = <<>>
            /\ UNCHANGED <<pageVars, viewerVars, superseded>>
    /\ UNCHANGED <<urlVars, netVars, uncaught>>

\* ------------------------------------------------------ follow-up form

\* onChange of the follow-up input: setHighlightInput(e.target.value).
InputChange(value) ==
    /\ FormRendered
    /\ highlightInput' = value
    /\ lastEvent' = Event("inputChange", FALSE, NoFile, Null, 0, "none")
    /\ calls' = <<>>
    /\ UNCHANGED <<overviewText, overviewLoading, overviewError, currentFileName,
                   selectedText, highlightMessages>>
    /\ UNCHANGED <<viewerVars, urlVars, netVars, uncaught, superseded>>

\* Faulty variant: the early return tests the raw input instead of the trimmed one.
SubmitAcceptedUntrimmed(input, selected) == input # <<>> /\ Truthy(selected)

\* handleHighlightSubmit passes its early return.
SubmitAccepted(input, selected) == Trim(input) # <<>> /\ Truthy(selected)

\* handleHighlightSubmit, up to its await.
HandleHighlightSubmit ==
    /\ FormRendered
    /\ calls' = <<>>
    /\ IF SubmitAccepted(highlightInput, selectedText)
       THEN LET trimmed == Trim(highlightInput)
                userMsg == ChatMessage("user", Typed(trimmed))
            IN  /\ BudgetLeft
                /\ highlightMessages' = Append(highlightMessages, userMsg)
                /\ highlightInput' = <<>>
                /\ Issue("followup", "/api/rag/highlight",
                         FollowupBody(selectedText[1], trimmed))
                /\ nTriggers' = nTriggers + 1
                /\ lastEvent' = Event("submit", TRUE, NoFile, Null, 0, "none")
                /\ UNCHANGED <<overviewText, overviewLoading, overviewError,
                               currentFileName, selectedText>>
       ELSE /\ lastEvent' = Event("submit", FALSE, NoFile, Null, 0, "none")
            /\ UNCHANGED <<pageVars, netVars>>
    /\ UNCHANGED <<viewerVars, urlVars, uncaught, superseded>>

\* ------------------------------------------------------ backend replies

\* A pending network call ends with outcome o and its continuation runs.
Reply(r, o) ==
    /\ r \in inflight
    /\ inflight' = inflight \ {r}
    /\ SetPage(Settled(PageState, r, o))
    /\ uncaught' = (uncaught \/ (CallRAGThrows(o) /\ ~HandlerCatches(r.kind)))
    /\ lastEvent' = Event("reply", CallRAGThrows(o), r.kind, Some(r.body), r.id, o)
    /\ superseded' = superseded \ {r.id}
    /\ calls' = <<>>
    /\ UNCHANGED <<nextReq, nTriggers, nCallRAG, nFetch>>
    /\ UNCHANGED <<viewerVars, urlVars>>

OverviewReply == \E r \in inflight, o \in Outcomes : r.kind = "overview" /\ Reply(r, o)

ExplainReply == \E r \in inflight, o \in Outcomes : r.kind = "explain" /\ Reply(r, o)

FollowupReply == \E r \in inflight, o \in Outcomes : r.kind = "followup" /\ Reply(r, o)

FileChange == \E file \in Files \cup {NoFile} : HandleFileChange(file)

MouseUp ==
    \E sel \in BrowserSelections, containerRect \in ContainerRects, scroll \in Scrolls :
        HandleMouseUp(sel, containerRect, scroll)

MouseDown == \E target \in Targets : HandleMouseDown(target)

TypeInput == \E value \in TypedTexts : InputChange(value)

Next ==
    \/ FileChange
    \/ MouseUp
    \/ MouseDown
    \/ TypeInput
    \/ HandleHighlightSubmit
    \/ OverviewReply
    \/ ExplainReply
    \/ FollowupReply

Spec == Init /\ [][Next]_vars

\* ==================================================================== claims

\* The event just handled is the reply to a network call of the given kind.
JustReplied(kind) == lastEvent.type = "reply" /\ lastEvent.name = kind

\* The in-flight network calls of the overview flow.
OverviewInFlight == {r \in inflight : r.kind = "overview"}

\* C1: right after an overview request resolves successfully the overview is
\* ready (not loading, no error, text = the returned answer); right after it
\* fails the overview is in error (not loading, error = the fixed string).
\* Stated as claimed; the code violates the success half when an earlier
\* request for a superseded upload has failed in the meantime.
C1_OverviewReadyOrError ==
    JustReplied("overview") =>
        IF lastEvent.outcome = "ok"
        THEN /\ overviewLoading = FALSE
             /\ overviewError = Null
             /\ overviewText = AnswerFor(lastEvent.req)
        ELSE /\ overviewLoading = FALSE
             /\ overviewError = Some(OverviewFallback)

\* C2: at every point of every sequence of uploads at most one object URL
\* created by the viewer is alive, between handlers (aliveUrls) and inside
\* handleFileChange (peakAlive); the one alive is the one the viewer holds.
C2_AtMostOneUrlAlive ==
    /\ Cardinality(aliveUrls) <= 1
    /\ peakAlive <= 1
    /\ aliveUrls = (IF fileUrl = Null THEN {} ELSE {fileUrl[1]})

\* A second upload has replaced the first file's URL.
C2_Witness ==
    /\ lastEvent.type = "fileChange"
    /\ lastEvent.name # NoFile
    /\ urlsCreated >= 2
    /\ aliveUrls = {urlsCreated}

\* A text is empty or whitespace only.
IsBlank(t) == \A i \in 1..Len(t) : t[i] \in Whitespace

\* The text without its leading and trailing whitespace, characterised
\* without reference to Trim: the non-blank-ended infix with blank margins.
IsTrimOf(t, raw) ==
    \E i \in 1..(Len(raw) + 1), j \in 0..Len(raw) :
        /\ t = SubSeq(raw, i, j)
        /\ IsBlank(SubSeq(raw, 1, i - 1))
        /\ IsBlank(SubSeq(raw, j + 1, Len(raw)))
        /\ (t # <<>> => t[1] \notin Whitespace /\ t[Len(t)] \notin Whitespace)

\* C3: an accepted follow-up submission (non-blank input, selection present)
\* appends the user message with the trimmed text in the submit step itself,
\* leaving its request pending; the step that settles a follow-up request
\* appends exactly one assistant message, the answer or the fixed fallback.
C3_FollowupAppends ==
    [][ /\ (lastEvent'.type = "submit" /\ ~IsBlank(highlightInput) /\ selectedText # Null) =>
              /\ Len(highlightMessages') = Len(highlightMessages) + 1
              /\ IsPrefix(highlightMessages, highlightMessages')
              /\ highlightMessages'[Len(highlightMessages')].role = "user"
              /\ \E t \in {highlightMessages'[Len(highlightMessages')].content[2]} :
                     IsTrimOf(t, highlightInput)
              /\ \E r \in inflight' \ inflight :
                     r.kind = "followup" /\ r.path = "/api/rag/highlight"
        /\ (lastEvent'.type = "reply" /\ lastEvent'.name = "followup") =>
              highlightMessages' =
                  Append(highlightMessages,
                         ChatMessage("assistant",
                                     IF lastEvent'.outcome = "ok"
                                     THEN AnswerFor(lastEvent'.req)
                                     ELSE Literal(FollowupFallback)))
      ]_vars

\* A follow-up has been answered: the user message, then the assistant's.
C3_Witness ==
    /\ JustReplied("followup")
    /\ Len(highlightMessages) >= 2
    /\ highlightMessages[Len(highlightMessages) - 1] = ChatMessage("user", Typed(<<"q">>))
    /\ highlightMessages[Len(highlightMessages)].role = "assistant"

\* The rectangle handleMouseUp is to show for the geometry g of a selection.
ExpectedRect(g) ==
    [ top    |-> g.rect.top - g.containerRect.top + g.scroll.top,
      left   |-> g.rect.left - g.containerRect.left + g.scroll.left,
      width  |-> g.rect.width,
      height |-> g.rect.height ]

\* C4: the viewer holds at most one highlight rectangle; right after a
\* pointer release with a non-empty, non-whitespace selection it is the one
\* computed for that selection; right after a pointer press on the container
\* itself it is null.
C4_OneRectForLastSelection ==
    /\ Len(highlightRect) <= 1
    /\ (lastEvent.type = "mouseUp" /\ lastEvent.outcome = "visible") =>
          /\ lastEvent.geo # Null
          /\ highlightRect = Some(ExpectedRect(lastEvent.geo[1]))
    /\ (lastEvent.type = "mouseDown" /\ lastEvent.flag) => highlightRect = Null

\* A selection made while another highlight was shown replaced it.
C4_Witness ==
    /\ lastEvent.type = "mouseUp"
    /\ lastEvent.outcome = "visible"
    /\ lastEvent.name = "highlight"
    /\ highlightRect = Some([top |-> 300, left |-> 50, width |-> 200, height |-> 18])

\* C5: a follow-up submission whose input is empty or whitespace only (or
\* made while selectedText is null) leaves the conversation, the selection
\* and the input unchanged and starts no backend request.
C5_BlankSubmitIsNoOp ==
    [][ (lastEvent'.type = "submit" /\ (IsBlank(highlightInput) \/ selectedText = Null)) =>
            /\ UNCHANGED <<highlightMessages, selectedText, highlightInput>>
            /\ UNCHANGED <<inflight, nCallRAG, nFetch>>
      ]_vars

\* A whitespace-only follow-up was submitted in a conversation and rejected.
C5_Witness ==
    /\ lastEvent.type = "submit"
    /\ ~lastEvent.flag
    /\ highlightInput = <<" ">>
    /\ selectedText # Null
    /\ highlightMessages # <<>>

\* C6: at most one overview request is in flight in every reachable state.
\* Stated as claimed; the code starts a second request while the first is
\* pending when a second file is uploaded before the first reply.
C6_OneOverviewInFlight == Cardinality(OverviewInFlight) <= 1

\* C7: a file change with a file clears the highlight rectangle and invokes
\* the selection-cleared callback before the file-loaded callback (invoked
\* once, with the file's name); a file change without a file changes no
\* state, revokes and creates no URL, and invokes no callback.
C7_ClearBeforeFileLoaded ==
    [][ lastEvent'.type = "fileChange" =>
            IF lastEvent'.name = NoFile
            THEN /\ UNCHANGED <<pageVars, viewerVars, aliveUrls, urlsCreated, inflight>>
                 /\ calls' = <<>>
            ELSE /\ highlightRect' = Null
                 /\ selectedText' = Null
                 /\ \E i, j \in DOMAIN calls' :
                        /\ i < j
                        /\ calls'[i].cb = "onClearSelection"
                        /\ calls'[j] = Callback("onFileLoaded", lastEvent'.name, <<>>)
                 /\ Cardinality({j \in DOMAIN calls' : calls'[j].cb = "onFileLoaded"}) = 1
      ]_vars

\* A file was uploaded while a highlight was shown.
C7_Witness ==
    /\ lastEvent.type = "fileChange"
    /\ lastEvent.name \in Files
    /\ lastEvent.flag
    /\ highlightRect = Null
    /\ Len(calls) = 2

\* The user events a state offers: a pointer press, and, while the request
\* budget of the exploration lasts, an upload, a selection and (with the
\* form rendered) a follow-up submission.
UserEventsEnabled ==
    /\ ENABLED MouseDown
    /\ BudgetLeft =>
          /\ ENABLED (\E file \in Files : HandleFileChange(file))
          /\ ENABLED (\E sel \in BrowserSelections, containerRect \in ContainerRects,
                         scroll \in Scrolls :
                            HasVisibleText(sel) /\ HandleMouseUp(sel, containerRect, scroll))
          /\ FormRendered => ENABLED HandleHighlightSubmit

\* C8: no failure of a backend call leaves its handler uncaught; right after
\* a failed call (network error, non-2xx status, unparseable body) the fixed
\* fallback string is in the state of the flow that made the call; and the
\* user events stay enabled.
C8_FailuresCaught ==
    /\ ~uncaught
    /\ (lastEvent.type = "reply" /\ lastEvent.outcome # "ok") =>
          CASE lastEvent.name = "overview" ->
                   overviewError = Some(OverviewFallback) /\ ~overviewLoading
            [] lastEvent.name = "explain" ->
                   highlightMessages = <<ChatMessage("assistant", Literal(ExplainFallback))>>
            [] lastEvent.name = "followup" ->
                   /\ highlightMessages # <<>>
                   /\ highlightMessages[Len(highlightMessages)] =
                          ChatMessage("assistant", Literal(FollowupFallback))
    /\ UserEventsEnabled

\* A follow-up call has just failed with the network down and the form
\* still rendered.
C8_Witness ==
    /\ JustReplied("followup")
    /\ lastEvent.outcome = "network_error"
    /\ FormRendered
    /\ BudgetLeft

\* C9 as claimed: callRAG throws exactly when the response status is not
\* successful, and the trigger events, callRAG invocations and fetch calls
\* are in one-to-one correspondence.
C9_ThrowsIffStatusNotOk ==
    /\ lastEvent.type = "reply" =>
          (lastEvent.flag <=> (Arrived(lastEvent.outcome) /\ ~StatusOk(lastEvent.outcome)))
    /\ nFetch = nCallRAG
    /\ nCallRAG = nTriggers

\* C9 as amended: callRAG throws exactly when no successful, parseable
\* response arrives (the fetch rejects, the status is not successful, or the
\* body is not JSON); every trigger event makes one callRAG invocation and
\* every invocation one fetch call, with none added after a failure.
C9_OneFetchThrowsUnlessOk ==
    /\ lastEvent.type = "reply" =>
          (lastEvent.flag <=> lastEvent.outcome \in {"network_error", "http_error", "bad_json"})
    /\ nFetch = nCallRAG
    /\ nCallRAG = nTriggers
    /\ Cardinality(inflight) <= nFetch
    /\ \A r1, r2 \in inflight : r1.id = r2.id => r1 = r2

\* A call has just been rejected without any response status, two trigger
\* events having made one call each.
C9_Witness ==
    /\ lastEvent.type = "reply"
    /\ lastEvent.outcome = "network_error"
    /\ lastEvent.flag
    /\ nTriggers = 2
    /\ nFetch = 2

\* The step is one of the reset events of the highlight conversation.
ResetStep ==
    \/ lastEvent'.type = "mouseUp" /\ lastEvent'.flag
    \/ lastEvent'.type = "mouseDown" /\ lastEvent'.flag
    \/ lastEvent'.type = "fileChange" /\ lastEvent'.name # NoFile

\* C10: every step that is not a reset event (selection made, selection
\* cleared, file loaded) leaves the previous message list a prefix of the
\* new one.  Stated as claimed; the code's reply to a selection replaces
\* the list, dropping a follow-up submitted before it arrived.
C10_AppendOnlyBetweenResets ==
    [][ ResetStep \/ IsPrefix(highlightMessages, highlightMessages') ]_vars

\* C11: a selection-made event sets selectedText to the (trimmed) new text
\* and empties the conversation and the input; when the next event is the
\* settling of its own request, the conversation then holds exactly one
\* message, the assistant's, with the answer or the fixed explain fallback.
C11_SelectionThenOneAnswer ==
    [][ /\ (lastEvent'.type = "mouseUp" /\ lastEvent'.outcome = "visible") =>
              /\ selectedText' # Null
              /\ IsTrimOf(selectedText'[1], lastEvent'.geo[1].text)
              /\ highlightMessages' = <<>>
              /\ highlightInput' = <<>>
              /\ \E r \in inflight' \ inflight :
                     /\ r.kind = "explain"
                     /\ r.id = nextReq
                     /\ r.body.text = selectedText'[1]
        /\ ( /\ lastEvent.type = "mouseUp" /\ lastEvent.flag
             /\ lastEvent'.type = "reply" /\ lastEvent'.req = nextReq - 1 ) =>
              highlightMessages' =
                  << ChatMessage("assistant",
                                 IF lastEvent'.outcome = "ok"
                                 THEN AnswerFor(lastEvent'.req)
                                 ELSE Literal(ExplainFallback)) >>
      ]_vars

\* The only request ever made, a selection's, has just failed, and the
\* conversation holds the fallback alone under the selected text.
C11_Witness ==
    /\ JustReplied("explain")
    /\ lastEvent.req = 1
    /\ nextReq = 2
    /\ selectedText = Some(<<"x">>)
    /\ highlightMessages = <<ChatMessage("assistant", Literal(ExplainFallback))>>

\* C12: a selection-cleared or selection-made event discards the prior
\* conversation for good: the reply to a highlight call that was pending
\* when the event happened (an earlier selection's explanation or
\* follow-up) puts no message into the conversation.  Stated as claimed;
\* the code applies such a reply like any other.
C12_EarlierRepliesDiscarded ==
    [][ (lastEvent'.type = "reply" /\ lastEvent'.req \in superseded) =>
            highlightMessages' = highlightMessages
      ]_vars

\* C13: right after a file-loaded event for a file the Page Controller is
\* loading that file's overview with every earlier overview and highlight
\* cell reset, whatever the state before.
C13_FileLoadedResets ==
    (lastEvent.type = "fileChange" /\ lastEvent.name # NoFile) =>
        /\ currentFileName = Some(lastEvent.name)
        /\ overviewLoading = TRUE
        /\ overviewError = Null
        /\ overviewText = EmptyString
        /\ selectedText = Null
        /\ highlightMessages = <<>>
        /\ highlightInput = <<>>

\* The third request-issuing event was a file loaded over a highlight, the
\* two earlier calls having settled.
C13_Witness ==
    /\ lastEvent.type = "fileChange"
    /\ lastEvent.name = "b.pdf"
    /\ lastEvent.flag
    /\ nTriggers = 3
    /\ inflight = {r \in inflight : r.id = 3}
    /\ overviewLoading

\* C14: an upload leaves the overview calls already pending running, and
\* the reply to any overview call, also one for an upload since superseded,
\* is applied: loading is cleared and the text (on success) or the error (on
\* failure) is set from it.  The race the claim names is the witness below.
C14_SupersededOverviewApplied ==
    [][ /\ (lastEvent'.type = "fileChange" /\ lastEvent'.name # NoFile) =>
              inflight \subseteq inflight'
        /\ (lastEvent'.type = "reply" /\ lastEvent'.name = "overview") =>
              /\ overviewLoading' = FALSE
              /\ IF lastEvent'.outcome = "ok"
                 THEN overviewText' = AnswerFor(lastEvent'.req)
                 ELSE overviewError' = Some(OverviewFallback)
      ]_vars

\* No call is pending and the overview text is the answer to the call made
\* for a file other than the current one.
C14_Witness ==
    /\ inflight = {}
    /\ JustReplied("overview")
    /\ lastEvent.outcome = "ok"
    /\ currentFileName # Null
    /\ lastEvent.geo[1].file_name # currentFileName[1]
    /\ overviewText = AnswerFor(lastEvent.req)
    /\ ~overviewLoading

\* C15: in every reachable state overviewLoading is true exactly when an
\* overview call is pending.  Stated as claimed; in the code the reply to a
\* superseded call clears the flag while the current call is still pending.
C15_LoadingIffOverviewPending ==
    overviewLoading <=> (OverviewInFlight # {})

\* Every pending network call eventually settles: the browser resolves or
\* rejects each fetch promise and the event loop runs its continuation.
\* User events stop once MaxLiveRequests calls have been started (so uploads
\* stop); the replies still outstanding then arrive.
LiveBudgetLeft == nextReq <= MaxLiveRequests

LiveNext ==
    \/ LiveBudgetLeft /\ FileChange
    \/ LiveBudgetLeft /\ MouseUp
    \/ LiveBudgetLeft /\ MouseDown
    \/ LiveBudgetLeft /\ TypeInput
    \/ LiveBudgetLeft /\ HandleHighlightSubmit
    \/ OverviewReply
    \/ ExplainReply
    \/ FollowupReply

LiveSpec ==
    /\ Init
    /\ [][LiveNext]_vars
    /\ WF_vars(OverviewReply)
    /\ WF_vars(ExplainReply)
    /\ WF_vars(FollowupReply)

\* C16: when every request eventually settles and uploads stop, the overview
\* flow leaves loading for good: from some point on overviewLoading is
\* false and, once a file has been loaded, the error or the text is set.
C16_OverviewLeavesLoading ==
    <>[]( /\ ~overviewLoading
          /\ currentFileName # Null =>
                (overviewError # Null \/ overviewText # EmptyString) )

\* All uploads of the behaviour are done and answered, the last one with a
\* failure: not loading, error set.
C16_Witness ==
    /\ ~LiveBudgetLeft
    /\ inflight = {}
    /\ JustReplied("overview")
    /\ lastEvent.req = MaxLiveRequests
    /\ ~overviewLoading
    /\ overviewError = Some(OverviewFallback)

\* C17: a pointer release whose browser selection is absent, collapsed or
\* blank after trimming changes nothing: the highlight rectangle keeps its
\* value, no callback is invoked (no selection-made event), no request is
\* started, and selectedText, the conversation and the input are unchanged.
C17_BlankMouseUpChangesNothing ==
    [][ (lastEvent'.type = "mouseUp" /\ lastEvent'.outcome = "blank") =>
            /\ calls' = <<>>
            /\ UNCHANGED <<highlightRect, fileObj, fileUrl>>
            /\ UNCHANGED pageVars
            /\ UNCHANGED <<inflight, nextReq, nCallRAG>> ]_vars

\* A blank pointer release arrived while a selection with a conversation
\* was shown, and the selection is still there.
C17_Witness ==
    /\ lastEvent.type = "mouseUp"
    /\ lastEvent.outcome = "blank"
    /\ ~lastEvent.flag
    /\ lastEvent.name = "highlight"
    /\ highlightRect # Null
    /\ selectedText # Null
    /\ highlightMessages # <<>>

\* C18: the viewer and the page agree on whether a selection exists: after
\* every event and every reply, highlightRect is non-null exactly when
\* selectedText is non-null.
C18_RectIffSelectedText ==
    (highlightRect # Null) <=> (selectedText # Null)

\* An overview reply arrives while a selection made after the upload is
\* shown; both sides still hold the selection.
C18_Witness ==
    /\ JustReplied("overview")
    /\ highlightRect # Null
    /\ selectedText # Null
    /\ HighlightPending # {}

\* C19: when nothing is selected there is no conversation: selectedText =
\* null implies highlightMessages is empty, also when a highlight request
\* issued before a selection-cleared or file-loaded event settles after it.
C19_NoSelectionNoConversation ==
    selectedText = Null => highlightMessages = <<>>

\* C20: every assistant message answers the current selection: a highlight
\* reply (answer or fallback) that lands in the conversation while a
\* selection exists belongs to a request whose body carried the text of the
\* current selection.
C20_AnswersCurrentSelection ==
    [][ ( /\ lastEvent'.type = "reply"
          /\ lastEvent'.name \in {"explain", "followup"}
          /\ selectedText' # Null )
        => lastEvent'.geo[1].text = selectedText'[1] ]_vars

====
